---- MODULE Spec2Model ----
(***************************************************************************)
(* Model of analyzer_tools/registry.py: the tool catalog TOOLS, the        *)
(* workflow catalog WORKFLOWS, the query functions over them and the       *)
(* display routine print_tool_overview.                                    *)
(*                                                                         *)
(* A Python dict is a sequence of <<key, value>> pairs in insertion order. *)
(* A formatted line of output is the sequence of the string pieces that    *)
(* the f-string concatenates.                                              *)
(***************************************************************************)
EXTENDS Integers, Sequences, FiniteSets, TLC

VARIABLES tools, workflows, copy, log, edits

vars == <<tools, workflows, copy, log, edits>>

(***************************************************************************)
(* Bounds of the model.                                                    *)
(***************************************************************************)
\* calls of the module's functions in one behaviour
MaxCalls == 3
\* item assignments / deletions a caller performs on mappings it received
MaxEdits == 1

(***************************************************************************)
(* dict helpers                                                            *)
(***************************************************************************)
\* list(d.keys()), in insertion order
Keys(d) == [i \in 1..Len(d) |-> d[i][1]]

\* set(d.keys())
KeySet(d) == {d[i][1] : i \in 1..Len(d)}

\* k in d
Has(d, k) == k \in KeySet(d)

\* d[k], for k in d
Item(d, k) == d[CHOOSE i \in 1..Len(d) : d[i][1] = k][2]

\* d[k] = v : an existing key keeps its position, a new key is appended
SetItem(d, k, v) ==
    IF Has(d, k)
    THEN [i \in 1..Len(d) |-> IF d[i][1] = k THEN <<k, v>> ELSE d[i]]
    ELSE Append(d, <<k, v>>)

\* del d[k]
DelItem(d, k) == SelectSeq(d, LAMBDA p : p[1] /= k)

\* ', '.join(xs), as the sequence of the joined pieces
RECURSIVE Join(_)
Join(xs) ==
    IF Len(xs) = 0 THEN <<>>
    ELSE IF Len(xs) = 1 THEN <<xs[1]>>
    ELSE <<xs[1], ", ">> \o Join(Tail(xs))

\* reversed(xs)
Reverse(xs) == [i \in 1..Len(xs) |-> xs[Len(xs) + 1 - i]]

(***************************************************************************)
(* class ToolInfo                                                          *)
(***************************************************************************)
ToolInfo(name, module, description, usage, examples, data_type) ==
    [name |-> name, module |-> module, description |-> description,
     usage |-> usage, examples |-> examples, data_type |-> data_type]

(***************************************************************************)
(* The static catalogs                                                     *)
(***************************************************************************)
partial_data_assessor ==
    ToolInfo("Partial Data Assessor",
             "analyzer_tools.partial_data_assessor",
             "Assess quality of partial reflectometry data by analyzing overlap regions between data parts. Calculates chi-squared metrics and generates visualization reports.",
             "python analyzer_tools/partial_data_assessor.py <set_id>",
             <<"python analyzer_tools/partial_data_assessor.py 218281",
               "python analyzer_tools/partial_data_assessor.py 218328">>,
             "partial")

run_fit ==
    ToolInfo("Reflectivity Fit Runner",
             "analyzer_tools.run_fit",
             "Run reflectivity fits on combined data using specified models. Performs least-squares fitting and generates fit reports with uncertainty analysis.",
             "python analyzer_tools/run_fit.py <data_id> <model_name>",
             <<"python analyzer_tools/run_fit.py 218281 cu_thf",
               "python analyzer_tools/run_fit.py 218328 cu_thf_temp">>,
             "combined")

result_assessor ==
    ToolInfo("Fit Result Assessor",
             "analyzer_tools.result_assessor",
             "Assess quality of fitting results by analyzing chi-squared values, parameter uncertainties, and generating comparison plots.",
             "python analyzer_tools/result_assessor.py <data_id> <model_name>",
             <<"python analyzer_tools/result_assessor.py 218281 cu_thf",
               "python analyzer_tools/result_assessor.py 218328 cu_thf_temp">>,
             "combined")

create_model_script ==
    ToolInfo("Model Script Creator",
             "analyzer_tools.create_model_script",
             "Generate fitting scripts by combining model definitions with fitting commands. Useful for batch processing and reproducible analysis.",
             "python analyzer_tools/create_model_script.py <model_name> <data_file> [--model_dir DIR] [--output_dir DIR]",
             <<"python analyzer_tools/create_model_script.py cu_thf data.txt",
               "python analyzer_tools/create_model_script.py cu_thf data.txt --output_dir custom_output">>,
             "combined")

create_temporary_model ==
    ToolInfo("Temporary Model Creator",
             "analyzer_tools.create_temporary_model",
             "Create temporary models with adjusted parameter ranges for sensitivity analysis and parameter exploration.",
             "python analyzer_tools/create_temporary_model.py <base_model> <new_model> --adjust <param> <min>,<max>",
             <<"python analyzer_tools/create_temporary_model.py cu_thf cu_thf_temp --adjust Cu thickness 500,800",
               "python analyzer_tools/create_temporary_model.py cu_thf cu_thf_wide --adjust Cu thickness 300,1000">>,
             "both")

\* faulty variant of TOOLS: a data_type outside the enumeration (capitalised)
TOOLS_OpenType ==
    << <<"partial_data_assessor",
         [partial_data_assessor EXCEPT !.data_type = "Partial"]>>,
       <<"run_fit", run_fit>>,
       <<"result_assessor", result_assessor>>,
       <<"create_model_script", create_model_script>>,
       <<"create_temporary_model", create_temporary_model>> >>

TOOLS ==
    << <<"partial_data_assessor", partial_data_assessor>>,
       <<"run_fit", run_fit>>,
       <<"result_assessor", result_assessor>>,
       <<"create_model_script", create_model_script>>,
       <<"create_temporary_model", create_temporary_model>> >>

partial_data_quality ==
    [name |-> "Partial Data Quality Assessment",
     description |-> "Assess the quality of partial reflectometry data before combining",
     steps |-> <<"1. Use partial_data_assessor to check overlap quality",
                 "2. Review chi-squared metrics (< 2.0 is typically good)",
                 "3. Examine overlap plots for systematic deviations",
                 "4. Identify problematic datasets for further investigation">>,
     tools |-> <<"partial_data_assessor">>]

standard_fitting ==
    [name |-> "Standard Reflectivity Fitting",
     description |-> "Complete workflow for fitting reflectivity data",
     steps |-> <<"1. Use run_fit to perform initial fitting",
                 "2. Use result_assessor to evaluate fit quality",
                 "3. If poor fit, use create_temporary_model to adjust parameters",
                 "4. Re-run fitting with adjusted model",
                 "5. Generate final reports">>,
     tools |-> <<"run_fit", "result_assessor", "create_temporary_model">>]

parameter_exploration ==
    [name |-> "Parameter Sensitivity Analysis",
     description |-> "Explore parameter sensitivity and uncertainty",
     steps |-> <<"1. Start with standard fitting workflow",
                 "2. Use create_temporary_model to create variants with different parameter ranges",
                 "3. Run fits on multiple parameter sets",
                 "4. Use result_assessor to compare results",
                 "5. Identify sensitive parameters and optimal ranges">>,
     tools |-> <<"run_fit", "result_assessor", "create_temporary_model">>]

\* faulty variant of WORKFLOWS: a workflow names a tool key the catalog does not hold
WORKFLOWS_Dangling ==
    << <<"partial_data_quality", partial_data_quality>>,
       <<"standard_fitting",
         [standard_fitting EXCEPT
            !.tools = <<"run_fit", "result_assesor", "create_temporary_model">>]>>,
       <<"parameter_exploration", parameter_exploration>> >>

WORKFLOWS ==
    << <<"partial_data_quality", partial_data_quality>>,
       <<"standard_fitting", standard_fitting>>,
       <<"parameter_exploration", parameter_exploration>> >>

(***************************************************************************)
(* Python values the functions return besides mappings and ToolInfo        *)
(***************************************************************************)
None == [none |-> TRUE]

(***************************************************************************)
(* The query functions                                                     *)
(***************************************************************************)
\* faulty variant of get_all_tools: the mapping rebuilt in another order
get_all_tools_Reversed(T) == Reverse(T)

\* return TOOLS
get_all_tools(T) == T

\* faulty variant of get_tool: a missing key yields a default entry
get_tool_Default(T, tool_name) ==
    IF Has(T, tool_name) THEN Item(T, tool_name) ELSE T[1][2]

\* return TOOLS.get(tool_name)
get_tool(T, tool_name) ==
    IF Has(T, tool_name) THEN Item(T, tool_name) ELSE None

\* faulty variant of get_tools_by_data_type: the 'or tool.data_type == "both"' is lost
get_tools_by_data_type_NoBoth(T, data_type) ==
    SelectSeq(T, LAMBDA p : p[2].data_type = data_type)

\* faulty variant of get_tools_by_data_type: "both" read as a request for everything
get_tools_by_data_type_Hierarchy(T, data_type) ==
    SelectSeq(T, LAMBDA p : \/ p[2].data_type = data_type
                            \/ p[2].data_type = "both"
                            \/ data_type = "both")

\* faulty variant of get_tools_by_data_type: the result built in reverse order
get_tools_by_data_type_Reversed(T, data_type) ==
    Reverse(SelectSeq(T, LAMBDA p : \/ p[2].data_type = data_type
                                    \/ p[2].data_type = "both"))

\* {name: tool for name, tool in TOOLS.items()
\*  if tool.data_type == data_type or tool.data_type == "both"}
get_tools_by_data_type(T, data_type) ==
    SelectSeq(T, LAMBDA p : \/ p[2].data_type = data_type
                            \/ p[2].data_type = "both")

\* return WORKFLOWS
get_workflows(W) == W

(***************************************************************************)
(* print_tool_overview                                                     *)
(***************************************************************************)
\* what the try block's import and call of get_data_organization_info do:
\* return a dict, raise ImportError, or raise any other exception
ConfigOutcomes == {"ok", "ImportError", "OtherError"}

\* the dict the except ImportError branch assigns
DefaultDataOrg ==
    [combined_data_dir |-> "data/combined",
     partial_data_dir |-> "data/partial",
     reports_dir |-> "reports",
     combined_data_template |-> "REFL_{set_id}_combined_data_auto.txt",
     models_dir |-> "models"]

\* a dict get_data_organization_info returns when the configuration loads
ConfigDataOrg ==
    [combined_data_dir |-> "/cfg/combined",
     partial_data_dir |-> "/cfg/partial",
     reports_dir |-> "/cfg/reports",
     combined_data_template |-> "REFL_{set_id}_cfg.txt",
     models_dir |-> "/cfg/models"]

\* the lines printed for one tool of the loop over TOOLS.items()
ToolLines(tool) ==
    << <<"\n", "TOOL ", tool.name>>,
       <<"   ", tool.description>>,
       <<"   Data type: ", tool.data_type>>,
       <<"   Usage: ", tool.usage>> >>
    \o (IF Len(tool.examples) > 0
        THEN << <<"   Example: ", tool.examples[1]>> >>
        ELSE <<>>)

\* the lines printed for one workflow of the loop over WORKFLOWS.items()
WorkflowLines(workflow) ==
    << <<"\n", "WORKFLOW ", workflow.name>>,
       <<"   ", workflow.description>>,
       <<"   Tools used: ">> \o Join(workflow.tools) >>

\* for tool_name, tool in TOOLS.items(): the lines, in the mapping's order
RECURSIVE ToolsLoop(_)
ToolsLoop(d) ==
    IF Len(d) = 0 THEN <<>> ELSE ToolLines(d[1][2]) \o ToolsLoop(Tail(d))

\* for workflow_name, workflow in WORKFLOWS.items(): the lines, in order
RECURSIVE WorkflowsLoop(_)
WorkflowsLoop(d) ==
    IF Len(d) = 0 THEN <<>> ELSE WorkflowLines(d[1][2]) \o WorkflowsLoop(Tail(d))

\* everything the function prints once data_org is set
Overview(T, W, data_org) ==
    << <<"=" , "*70">>,
       <<"NEUTRON REFLECTOMETRY DATA ANALYSIS TOOLS">>,
       <<"=", "*70">>,
       <<>>,
       <<"AVAILABLE ANALYSIS TOOLS:">>,
       <<"-", "*40">> >>
    \o ToolsLoop(T)
    \o << <<"\n", "ANALYSIS WORKFLOWS:">>,
          <<"-", "*40">> >>
    \o WorkflowsLoop(W)
    \o << <<"\n", "DATA ORGANIZATION:">>,
          <<"-", "*40">>,
          <<"   Partial data: ", data_org.partial_data_dir,
            "/ (REFL_<set_ID>_<part_ID>_<run_ID>_partial.txt)">>,
          <<"   Combined data: ", data_org.combined_data_dir, "/ (",
            data_org.combined_data_template, ")">>,
          <<"   Models: ", data_org.models_dir,
            "/ (Python files with reflectivity models)">>,
          <<"   Reports: ", data_org.reports_dir,
            "/ (Generated analysis reports and plots)">>,
          <<"\n", "QUICK START:">>,
          <<"-", "*40">>,
          <<"   1. For partial data quality: python analyzer_tools/partial_data_assessor.py 218281">>,
          <<"   2. For reflectivity fitting: python analyzer_tools/run_fit.py 218281 cu_thf">>,
          <<"   3. For result assessment: python analyzer_tools/result_assessor.py 218281 cu_thf">>,
          <<"\n", "=", "*70">> >>

\* faulty variant of print_tool_overview: no except clause around the import
print_tool_overview_NoExcept(T, W, outcome) ==
    IF outcome = "ok"
    THEN [raised |-> FALSE, data_org |-> ConfigDataOrg,
          out |-> Overview(T, W, ConfigDataOrg)]
    ELSE [raised |-> TRUE, data_org |-> None, out |-> <<>>]

\* the whole function: the try/except ImportError, then the prints.
\* An exception that is not an ImportError leaves the function at the try
\* block, before anything is printed.
print_tool_overview(T, W, outcome) ==
    IF outcome = "OtherError"
    THEN [raised |-> TRUE, data_org |-> None, out |-> <<>>]
    ELSE LET data_org == IF outcome = "ImportError"
                         THEN DefaultDataOrg
                         ELSE ConfigDataOrg
         IN [raised |-> FALSE, data_org |-> data_org,
             out |-> Overview(T, W, data_org)]

(***************************************************************************)
(* Arguments of the calls                                                  *)
(***************************************************************************)
\* tool_name arguments: every key of the static catalog and keys outside it
ToolNames == KeySet(TOOLS) \cup {"nonexistent_key", "caller_tool"}

\* data_type arguments: the enumeration and strings outside it
DataTypes == {"partial", "combined", "both", "Partial", ""}

(***************************************************************************)
(* What a caller holds: an entry of log is one call and what it returned.  *)
(* ref tells which object a returned mapping is: the module's TOOLS or     *)
(* WORKFLOWS itself, or a dict built by the call ("new").                  *)
(***************************************************************************)
Call(op, arg, ref, val) == [op |-> op, arg |-> arg, ref |-> ref, val |-> val]

Held(ref) == \E i \in 1..Len(log) : log[i].ref = ref

Init ==
    /\ tools = TOOLS
    /\ workflows = WORKFLOWS
    /\ copy = <<>>
    /\ log = <<>>
    /\ edits = 0

GetAllTools ==
    /\ Len(log) < MaxCalls
    /\ log' = Append(log, Call("get_all_tools", "", "TOOLS", get_all_tools(tools)))
    /\ UNCHANGED <<tools, workflows, copy, edits>>

\* faulty variant of GetTool: TOOLS.pop(tool_name, None) in place of TOOLS.get
GetTool_Pop(tool_name) ==
    /\ Len(log) < MaxCalls
    /\ log' = Append(log, Call("get_tool", tool_name, "-", get_tool(tools, tool_name)))
    /\ tools' = DelItem(tools, tool_name)
    /\ UNCHANGED <<workflows, copy, edits>>

GetTool(tool_name) ==
    /\ Len(log) < MaxCalls
    /\ log' = Append(log, Call("get_tool", tool_name, "-", get_tool(tools, tool_name)))
    /\ UNCHANGED <<tools, workflows, copy, edits>>

GetToolsByDataType(data_type) ==
    /\ Len(log) < MaxCalls
    /\ copy' = get_tools_by_data_type(tools, data_type)
    /\ log' = Append(log, Call("get_tools_by_data_type", data_type, "new", copy'))
    /\ UNCHANGED <<tools, workflows, edits>>

GetWorkflows ==
    /\ Len(log) < MaxCalls
    /\ log' = Append(log, Call("get_workflows", "", "WORKFLOWS", get_workflows(workflows)))
    /\ UNCHANGED <<tools, workflows, copy, edits>>

PrintToolOverview(outcome) ==
    /\ Len(log) < MaxCalls
    /\ log' = Append(log, Call("print_tool_overview", outcome, "-",
                               print_tool_overview(tools, workflows, outcome)))
    /\ UNCHANGED <<tools, workflows, copy, edits>>

Next ==
    \/ GetAllTools
    \/ \E tool_name \in ToolNames : GetTool(tool_name)
    \/ \E data_type \in DataTypes : GetToolsByDataType(data_type)
    \/ GetWorkflows
    \/ \E outcome \in ConfigOutcomes : PrintToolOverview(outcome)

Spec == Init /\ [][Next]_vars

(***************************************************************************)
(* A caller that writes to the mappings it received.  get_all_tools and    *)
(* get_workflows return the module's own dict objects, so an item          *)
(* assignment or deletion through them acts on TOOLS / WORKFLOWS;          *)
(* get_tools_by_data_type returns a dict of its own.                       *)
(***************************************************************************)
caller_tool ==
    ToolInfo("Caller Tool", "caller.module", "An entry a caller wrote.",
             "python caller.py", <<>>, "partial")

caller_workflow ==
    [name |-> "Caller Workflow", description |-> "A workflow a caller wrote.",
     steps |-> <<"1. Use caller_tool">>, tools |-> <<"caller_tool">>]

\* keys the caller writes or deletes: one the catalog holds, one it does not
CallerToolKeys == {"run_fit", "caller_tool"}

CallerWorkflowKeys == {"standard_fitting", "caller_workflow"}

\* received[key] = value  (adds the key, or replaces its entry)
CallerSetItem(ref, key) ==
    /\ edits < MaxEdits
    /\ Held(ref)
    /\ edits' = edits + 1
    /\ \/ /\ ref = "TOOLS"
          /\ key \in CallerToolKeys
          /\ tools' = SetItem(tools, key, caller_tool)
          /\ UNCHANGED <<workflows, copy>>
       \/ /\ ref = "WORKFLOWS"
          /\ key \in CallerWorkflowKeys
          /\ workflows' = SetItem(workflows, key, caller_workflow)
          /\ UNCHANGED <<tools, copy>>
       \/ /\ ref = "new"
          /\ key \in CallerToolKeys
          /\ copy' = SetItem(copy, key, caller_tool)
          /\ UNCHANGED <<tools, workflows>>
    /\ UNCHANGED log

\* del received[key]
CallerDelItem(ref, key) ==
    /\ edits < MaxEdits
    /\ Held(ref)
    /\ edits' = edits + 1
    /\ \/ /\ ref = "TOOLS"
          /\ Has(tools, key)
          /\ tools' = DelItem(tools, key)
          /\ UNCHANGED <<workflows, copy>>
       \/ /\ ref = "WORKFLOWS"
          /\ Has(workflows, key)
          /\ workflows' = DelItem(workflows, key)
          /\ UNCHANGED <<tools, copy>>
       \/ /\ ref = "new"
          /\ Has(copy, key)
          /\ copy' = DelItem(copy, key)
          /\ UNCHANGED <<tools, workflows>>
    /\ UNCHANGED log

Refs == {"TOOLS", "WORKFLOWS", "new"}

NextCaller ==
    \/ Next
    \/ \E ref \in Refs, key \in CallerToolKeys \cup CallerWorkflowKeys :
          CallerSetItem(ref, key)
    \/ \E ref \in Refs, key \in CallerToolKeys \cup CallerWorkflowKeys :
          CallerDelItem(ref, key)

SpecCaller == Init /\ [][NextCaller]_vars

(***************************************************************************)
(* Properties                                                              *)
(***************************************************************************)
Range(f) == {f[i] : i \in DOMAIN f}

\* the positions of log that are calls of op
CallsOf(op) == {i \in 1..Len(log) : log[i].op = op}

\* C1: for every tool entry e of the catalog and every requested category c
\* in {"partial", "combined"}, e is in get_tools_by_data_type(c) iff
\* e.data_type = c or e.data_type = "both"; so the tool tagged "both" is in
\* both results, a tool tagged "combined" is absent from the "partial" result
\* and the tool tagged "partial" is absent from the "combined" result.
C1_CategoryFilter ==
    \A i \in CallsOf("get_tools_by_data_type") :
        log[i].arg \in {"partial", "combined"} =>
            /\ \A j \in 1..Len(tools) :
                  (tools[j] \in Range(log[i].val))
                    <=> (\/ tools[j][2].data_type = log[i].arg
                         \/ tools[j][2].data_type = "both")
            /\ Range(log[i].val) \subseteq Range(tools)
            /\ Has(log[i].val, "create_temporary_model")
            /\ log[i].arg = "partial" =>
                  /\ ~Has(log[i].val, "run_fit")
                  /\ ~Has(log[i].val, "result_assessor")
                  /\ ~Has(log[i].val, "create_model_script")
            /\ log[i].arg = "combined" =>
                  ~Has(log[i].val, "partial_data_assessor")

C1_Witness ==
    /\ \E i \in CallsOf("get_tools_by_data_type") :
          /\ log[i].arg = "partial"
          /\ Keys(log[i].val) = <<"partial_data_assessor", "create_temporary_model">>
    /\ \E i \in CallsOf("get_tools_by_data_type") :
          /\ log[i].arg = "combined"
          /\ Len(log[i].val) = 4

\* C2: for every key that is not a key of the tool catalog, get_tool(key)
\* returns None: no exception, no placeholder or default entry, and the key
\* is not added to the catalog.
C2_LookupAbsent ==
    \A i \in CallsOf("get_tool") :
        log[i].arg \notin KeySet(TOOLS) =>
            /\ log[i].val = None
            /\ ~Has(tools, log[i].arg)

C2_Witness ==
    \E i \in CallsOf("get_tool") :
        /\ log[i].arg = "nonexistent_key"
        /\ log[i].val = None
        /\ \E j \in CallsOf("get_tool") : j > i /\ log[j].val = run_fit

\* C3: referential integrity: for every workflow w returned by
\* get_workflows() and every tool key t of w["tools"], get_tool(t) is
\* present: no workflow of the catalog holds a dangling tool reference.
C3_ReferentialIntegrity ==
    /\ \A i \in 1..Len(workflows) :
          \A t \in Range(workflows[i][2].tools) : get_tool(tools, t) /= None
    /\ \A i \in CallsOf("get_workflows") :
          \A w \in 1..Len(log[i].val) :
              \A t \in Range(log[i].val[w][2].tools) :
                  /\ Has(tools, t)
                  /\ \A j \in CallsOf("get_tool") :
                        log[j].arg = t => log[j].val /= None

C3_Witness ==
    \E i \in CallsOf("get_workflows") :
        /\ Len(log[i].val) = 3
        /\ \E j \in CallsOf("get_tool") :
              /\ log[j].arg \in Range(log[i].val[2][2].tools)
              /\ log[j].val = create_temporary_model

QueryOps == {"get_all_tools", "get_tool", "get_tools_by_data_type", "get_workflows"}

\* C4: idempotence of reads: after any sequence of query calls, a repeated
\* call with the same argument returns a value equal to the one returned
\* before, and no query call changes the tool or the workflow catalog.
C4_IdempotentReads ==
    /\ \A i, j \in 1..Len(log) :
          (/\ log[i].op \in QueryOps
           /\ log[i].op = log[j].op
           /\ log[i].arg = log[j].arg) => log[i].val = log[j].val
    /\ tools = TOOLS
    /\ workflows = WORKFLOWS

C4_Witness ==
    /\ Len(log) = 3
    /\ log[1].op = "get_tool" /\ log[1].arg = "run_fit"
    /\ log[2].op = "get_tools_by_data_type"
    /\ log[3].op = "get_tool" /\ log[3].arg = "run_fit"
    /\ log[3].val = run_fit

\* C5: every call of get_all_tools() yields exactly the statically defined
\* tool keys in the insertion order of the definition, two calls yield the
\* same order, and get_workflows() yields the workflows in definition order.
C5_OrderPreserved ==
    /\ \A i \in CallsOf("get_all_tools") :
          /\ Keys(log[i].val) = <<"partial_data_assessor", "run_fit",
                                  "result_assessor", "create_model_script",
                                  "create_temporary_model">>
          /\ \A j \in CallsOf("get_all_tools") : Keys(log[j].val) = Keys(log[i].val)
    /\ \A i \in CallsOf("get_workflows") :
          Keys(log[i].val) = <<"partial_data_quality", "standard_fitting",
                               "parameter_exploration">>

C5_Witness ==
    /\ Cardinality(CallsOf("get_all_tools")) = 2
    /\ Cardinality(CallsOf("get_workflows")) = 1
    /\ \A i \in CallsOf("get_all_tools") : Len(log[i].val) = 5

DataTypeEnum == {"partial", "combined", "both"}

\* C6: in every reachable state of the registry every key of the tool
\* catalog is unique and every entry's data_type is one of "partial",
\* "combined", "both".
C6_CatalogWellFormed ==
    /\ \A i, j \in 1..Len(tools) : i /= j => tools[i][1] /= tools[j][1]
    /\ \A i \in 1..Len(tools) : tools[i][2].data_type \in DataTypeEnum

C6_Witness ==
    /\ Len(log) = MaxCalls
    /\ \E i \in CallsOf("get_all_tools") :
          /\ Cardinality(KeySet(log[i].val)) = 5
          /\ {log[i].val[j][2].data_type : j \in 1..5} = DataTypeEnum

\* C7 as stated: whenever the configuration collaborator is unavailable OR
\* fails to load its configuration, print_tool_overview substitutes the
\* default path strings and completes; the failure is never propagated.
C7_AnyFailureFallsBack ==
    \A i \in CallsOf("print_tool_overview") :
        log[i].arg \in {"ImportError", "OtherError"} =>
            /\ ~log[i].val.raised
            /\ log[i].val.data_org = DefaultDataOrg
            /\ log[i].val.out = Overview(tools, workflows, DefaultDataOrg)

\* C7 amended: when the import or the call of the configuration collaborator
\* raises ImportError, print_tool_overview substitutes the default path
\* strings and completes the overview without propagating; any other
\* exception raised there propagates and nothing is printed.
C7_ImportErrorFallsBack ==
    \A i \in CallsOf("print_tool_overview") :
        /\ log[i].arg = "ImportError" =>
              /\ ~log[i].val.raised
              /\ log[i].val.data_org =
                    [combined_data_dir |-> "data/combined",
                     partial_data_dir |-> "data/partial",
                     reports_dir |-> "reports",
                     combined_data_template |-> "REFL_{set_id}_combined_data_auto.txt",
                     models_dir |-> "models"]
              /\ <<"   Partial data: ", "data/partial",
                   "/ (REFL_<set_ID>_<part_ID>_<run_ID>_partial.txt)">>
                    \in Range(log[i].val.out)
              /\ log[i].val.out[Len(log[i].val.out)] = <<"\n", "=", "*70">>
        /\ log[i].arg = "OtherError" =>
              /\ log[i].val.raised
              /\ log[i].val.out = <<>>

C7_Witness ==
    /\ \E i \in CallsOf("print_tool_overview") :
          /\ log[i].arg = "ImportError"
          /\ ~log[i].val.raised
          /\ Len(log[i].val.out) > 40
    /\ \E i \in CallsOf("print_tool_overview") :
          /\ log[i].arg = "OtherError"
          /\ log[i].val.raised

\* what a call returns on the statically defined catalogs
StaticResult(op, arg) ==
    CASE op = "get_all_tools" -> TOOLS
      [] op = "get_tool" -> get_tool(TOOLS, arg)
      [] op = "get_tools_by_data_type" -> get_tools_by_data_type(TOOLS, arg)
      [] op = "get_workflows" -> WORKFLOWS

\* C8: the catalog is immutable from the point of view of any caller: for
\* any sequence of query calls interleaved with a caller adding, removing or
\* replacing entries in a mapping it received, every later query call still
\* returns the statically defined content.
C8_ImmutableForCallers ==
    \A i \in 1..Len(log) :
        log[i].op \in QueryOps => log[i].val = StaticResult(log[i].op, log[i].arg)

\* C9: for a requested category that is not "partial" or "combined"
\* ("both" itself, or a string outside the enumeration), the function does
\* not raise and returns exactly the tools tagged "both" (only
\* create_temporary_model): never an empty mapping, never a tool tagged
\* "partial" or "combined".
C9_OtherCategory ==
    \A i \in CallsOf("get_tools_by_data_type") :
        log[i].arg \notin {"partial", "combined"} =>
            /\ log[i].val = <<  <<"create_temporary_model", create_temporary_model>> >>
            /\ \A j \in 1..Len(tools) :
                  (tools[j] \in Range(log[i].val)) <=> tools[j][2].data_type = "both"

C9_Witness ==
    /\ Len(log) = 3
    /\ \A i \in 1..3 : log[i].op = "get_tools_by_data_type"
    /\ {log[i].arg : i \in 1..3} = {"both", "Partial", ""}
    /\ \A i \in 1..3 : Keys(log[i].val) = <<"create_temporary_model">>

\* C10: the query operations agree: get_tool(k) is present iff k is a key of
\* get_all_tools(), and then is the entry stored under k there; and
\* get_tools_by_data_type(c) is a sub-mapping of get_all_tools() whose keys
\* keep the relative order they have in get_all_tools().
C10_QueriesAgree ==
    \A a \in CallsOf("get_all_tools") :
        /\ \A i \in CallsOf("get_tool") :
              /\ (log[i].val /= None) <=> Has(log[a].val, log[i].arg)
              /\ Has(log[a].val, log[i].arg) =>
                    log[i].val = Item(log[a].val, log[i].arg)
        /\ \A i \in CallsOf("get_tools_by_data_type") :
              log[i].val = SelectSeq(log[a].val, LAMBDA p : p \in Range(log[i].val))

C10_Witness ==
    /\ CallsOf("get_all_tools") /= {}
    /\ \E i \in CallsOf("get_tool") : log[i].val = result_assessor
    /\ \E i \in CallsOf("get_tools_by_data_type") :
          Keys(log[i].val) = <<"run_fit", "result_assessor",
                               "create_model_script", "create_temporary_model">>

====
